---------------------------- MODULE Spec2Model ----------------------------
(***************************************************************************)
(* A model of crates/ui/src/text/element.rs of gpui-component: the block   *)
(* tree (Node), its compact reduction, the Paragraph value and its         *)
(* mutators, the paragraph compositor of Paragraph::render, the list       *)
(* numbering of Node::render / Node::render_list_item and the table sizer  *)
(* of Node::render_table.                                                  *)
(*                                                                         *)
(* Conventions.  Option<T> is a sequence of length at most one: None is    *)
(* <<>> and Some(x) is <<x>>.  A Rust String is a TLA+ string, with Len    *)
(* for len() and \o for push_str.  A Range<usize> is [start, end].  An     *)
(* enum value is a record whose kind field names the variant.              *)
(***************************************************************************)
EXTENDS Integers, Sequences, FiniteSets, TLC

VARIABLES
    \* Paragraph mutators (element.rs 142-178)
    para,        \* the Paragraph being edited
    prev,        \* the Paragraph before the last call
    op,          \* the last call: [name, arg]
    ret,         \* what the last call returned: None for a call returning ()
    \* Node::compact (element.rs 249-265)
    node,        \* the tree handed to compact
    out,         \* the result of the last compact
    passes,      \* how many times compact has been applied
    \* Paragraph::render (element.rs 269-349)
    rpara,       \* the Paragraph being rendered (self)
    rix,         \* how many of its children the loop has processed
    text,        \* let mut text
    highlights,  \* let mut highlights
    links,       \* let mut links
    offset,      \* let mut offset
    rpc,         \* "loop" in the loop, "built" once the element is built,
                 \* "handled" after the click handler, "dispatched" after
                 \* the click has been offered to the enclosing elements
    link_ranges, \* let link_ranges
    click_ix,    \* the ix the click handler was last called with
    effects,     \* the calls the handler made on cx, in order
    propagate,   \* whether the click still propagates to enclosing elements
    fired,       \* whether an enclosing click handler ran for the click
    \* gpui::combine_highlights, called at element.rs 315
    arg_a,          \* its first argument
    arg_b,          \* its second argument
    merged,      \* its result
    mpc,         \* "start" before the call, "merged" after it
    \* Node::render_table (element.rs 446-529)
    tnode,       \* the Table node being rendered (item)
    col_lens,    \* let mut col_lens
    trows,       \* let mut rows: the rows rendered so far
    tpc,         \* "size" in the first match, "render" in the second
    tix,         \* rows the loop of the current match has processed
    gets,        \* what col_lens.get(ix) returned, per cell rendered
    minuends,    \* the len() of every "len() - 1" evaluated, in order
    \* Node::render of a List (element.rs 587-615)
    lnode,       \* the List node being rendered (self)
    lstate,      \* the list_state argument
    lpos,        \* children the loop has processed
    ix,          \* let mut ix
    items,       \* let mut items
    calls,       \* the (ix, state) handed to render_list_item, per child
    \* Node::render of a Root (element.rs 547-556)
    doc,         \* the Root node being rendered (self)
    dpos,        \* children the map over the Root's children has rendered
    dout,        \* the elements of the children rendered so far
    seen         \* the render_list_item calls on a ListItem made so far:
                 \* [path, ix, state], path being the child indexes from doc

pvars == <<para, prev, op, ret>>
nvars == <<node, out, passes>>
ivars == <<link_ranges, click_ix, effects, propagate, fired>>
rvars == <<rpara, rix, text, highlights, links, offset, rpc, ivars>>
mvars == <<arg_a, arg_b, merged, mpc>>
evars == <<gets, minuends>>
tvars == <<tnode, col_lens, trows, tpc, tix, evars>>
dvars == <<doc, dpos, dout, seen>>
lvars == <<lnode, lstate, lpos, ix, items, calls, dvars>>
vars == <<para, prev, op, ret, node, out, passes,
          rpara, rix, text, highlights, links, offset,
          rpc, link_ranges, click_ix, effects, propagate, fired,
          arg_a, arg_b, merged, mpc,
          tnode, col_lens, trows, tpc, tix, gets, minuends,
          lnode, lstate, lpos, ix, items, calls,
          doc, dpos, dout, seen>>

None == <<>>
Some(x) == <<x>>

(***************************************************************************)
(* Bounds of the model.                                                    *)
(***************************************************************************)
MaxRuns == 3        \* text runs a Paragraph is grown to
MaxNodes == 4       \* nodes of a tree handed to compact
MaxChildren == 2    \* text runs of a Paragraph handed to render
MaxPos == 2         \* largest offset of a range handed to combine_highlights
MaxRanges == 2      \* ranges of a list handed to combine_highlights
MaxRows == 2        \* rows of a Table
MaxCols == 2        \* cells of a TableRow
MaxItems == 4       \* children of a List
MaxTreeNodes == 6   \* nodes below the Root of a document of lists

(***************************************************************************)
(* Data: InlineTextStyle, TextNode, Paragraph.                             *)
(***************************************************************************)
\* InlineTextStyle::default()
DefaultStyle ==
    [bold |-> FALSE, italic |-> FALSE, strikethrough |-> FALSE,
     code |-> FALSE, link |-> None]

\* Paragraph::default()
DefaultParagraph == [kind |-> "Texts", span |-> None, children |-> <<>>]

\* The strings, spans, images and text nodes the callers pass in.
TextSet == {"", "a", "bc"}
SpanSet == {[start |-> 0, end |-> 3], [start |-> 4, end |-> 9]}
ImageSet ==
    {[url |-> "u1", title |-> None, alt |-> None],
     [url |-> "u2", title |-> Some("t"), alt |-> None]}
BoldStyle == [DefaultStyle EXCEPT !.bold = TRUE]
LinkStyle == [DefaultStyle EXCEPT !.link = Some([url |-> "l1", title |-> None])]
TextNodeSet ==
    {[text |-> "xyz", marks |-> <<>>],
     [text |-> "link", marks |->
        <<[range |-> [start |-> 0, end |-> 4], style |-> LinkStyle],
          [range |-> [start |-> 1, end |-> 3], style |-> BoldStyle]>>]}

(***************************************************************************)
(* Paragraph mutators.  Each operator is the new value of *self.           *)
(***************************************************************************)
\* A clear that leaves an Image as it is.
clear_keep_image(self) ==
    IF self.kind = "Texts"
    THEN [self EXCEPT !.children = <<>>]
    ELSE self

clear(self) ==
    IF self.kind = "Texts"
    THEN [self EXCEPT !.children = <<>>]
    ELSE DefaultParagraph

is_image(self) == self.kind = "Image"

set_span(self, span) == [self EXCEPT !.span = Some(span)]

push_str(self, str) ==
    IF self.kind = "Texts"
    THEN [self EXCEPT !.children =
            Append(@, [text |-> str,
                       marks |-> <<[range |-> [start |-> 0, end |-> Len(str)],
                                    style |-> DefaultStyle]>>])]
    ELSE self

push(self, text_node) ==
    IF self.kind = "Texts"
    THEN [self EXCEPT !.children = Append(@, text_node)]
    ELSE self

set_image(self, image) == [kind |-> "Image", span |-> None, image |-> image]

\* The runs of a paragraph: an Image holds none.
Runs(p) == IF p.kind = "Texts" THEN p.children ELSE <<>>

Clear ==
    /\ para' = clear(para)
    /\ prev' = para
    /\ op' = [name |-> "clear", arg |-> None]
    /\ ret' = None
    /\ UNCHANGED <<nvars, rvars, mvars, tvars, lvars>>

SetSpan ==
    \E s \in SpanSet :
        /\ para' = set_span(para, s)
        /\ prev' = para
        /\ op' = [name |-> "set_span", arg |-> s]
    /\ ret' = None
        /\ UNCHANGED <<nvars, rvars, mvars, tvars, lvars>>

PushStr ==
    \E t \in TextSet :
        /\ Len(Runs(para)) < MaxRuns
        /\ para' = push_str(para, t)
        /\ prev' = para
        /\ op' = [name |-> "push_str", arg |-> t]
    /\ ret' = None
        /\ UNCHANGED <<nvars, rvars, mvars, tvars, lvars>>

Push ==
    \E t \in TextNodeSet :
        /\ Len(Runs(para)) < MaxRuns
        /\ para' = push(para, t)
        /\ prev' = para
        /\ op' = [name |-> "push", arg |-> t]
    /\ ret' = None
        /\ UNCHANGED <<nvars, rvars, mvars, tvars, lvars>>

SetImage ==
    \E i \in ImageSet :
        /\ para' = set_image(para, i)
        /\ prev' = para
        /\ op' = [name |-> "set_image", arg |-> i]
    /\ ret' = None
        /\ UNCHANGED <<nvars, rvars, mvars, tvars, lvars>>

(***************************************************************************)
(* Node and Node::compact.                                                 *)
(***************************************************************************)
Ignore == [kind |-> "Ignore"]
Break == [kind |-> "Break"]
Root(children) == [kind |-> "Root", children |-> children]
ParagraphNode(p) == [kind |-> "Paragraph", para |-> p]
List(children, ordered) ==
    [kind |-> "List", children |-> children, ordered |-> ordered]

is_ignore(self) == self.kind = "Ignore"

is_list_item(self) == self.kind = "ListItem"

RECURSIVE compact(_), CompactedChildren(_)

\* .filter(|c| !c.is_ignore()).collect::<Vec<_>>()
NotIgnored(cs) == SelectSeq(cs, LAMBDA c : ~is_ignore(c))

\* children.iter().map(|c| c.compact()).filter(|c| !c.is_ignore()).collect()
CompactedChildren(self) ==
    NotIgnored([i \in 1..Len(self.children) |-> compact(self.children[i])])

\* A compact that unwraps the single remaining child without compacting it.
RECURSIVE compact_shallow(_)
compact_shallow(self) ==
    IF self.kind = "Root"
    THEN LET children ==
                 SelectSeq(self.children,
                           LAMBDA c : ~is_ignore(compact_shallow(c)))
         IN  IF Len(children) = 1 THEN children[1] ELSE self
    ELSE self

\* A compact that counts the children without dropping the Ignore ones.
RECURSIVE compact_nofilter(_)
compact_nofilter(self) ==
    IF self.kind = "Root"
    THEN LET children ==
                 [i \in 1..Len(self.children) |->
                     compact_nofilter(self.children[i])]
         IN  IF Len(children) = 1
             THEN compact_nofilter(children[1])
             ELSE self
    ELSE self

compact(self) ==
    IF self.kind = "Root"
    THEN LET children == CompactedChildren(self)
         IN  IF Len(children) = 1
             THEN compact(children[1])
             ELSE self
    ELSE self

\* The leaves and the trees of exactly n nodes handed to compact.
Leaves == {Ignore, Break, ParagraphNode(DefaultParagraph), Root(<<>>),
           List(<<>>, FALSE)}

RECURSIVE TreesOfSize(_), ForestsOfSize(_)

TreesOfSize(n) ==
    IF n = 1
    THEN Leaves
    ELSE {Root(f) : f \in ForestsOfSize(n - 1)}
         \cup {List(f, FALSE) : f \in ForestsOfSize(n - 1)}

ForestsOfSize(m) ==
    IF m = 0
    THEN {<<>>}
    ELSE UNION {{<<t>> \o f : t \in TreesOfSize(k), f \in ForestsOfSize(m - k)} :
                k \in 1..m}

Trees == UNION {TreesOfSize(n) : n \in 1..MaxNodes}

Compact ==
    /\ passes = 0
    /\ out' = compact(node)
    /\ passes' = 1
    /\ UNCHANGED <<node, pvars, rvars, mvars, tvars, lvars>>

Recompact ==
    /\ passes = 1
    /\ out' = compact(out)
    /\ passes' = 2
    /\ UNCHANGED <<node, pvars, rvars, mvars, tvars, lvars>>

(***************************************************************************)
(* gpui::HighlightStyle and gpui::combine_highlights.  The function is not *)
(* part of the source: it is modelled from the merge contract of the       *)
(* specification (4.1): a sweep over the sorted boundaries of both lists   *)
(* that emits one segment per covered sub-interval, with the flags of the  *)
(* covering ranges OR-ed, the first list's link colour taking precedence,  *)
(* and zero-length ranges dropped.                                         *)
(***************************************************************************)
\* HighlightStyle::default(): an Option field is TRUE when it is Some, and
\* color is 0 for None or the number of the colour.
DefaultHighlight ==
    [font_weight |-> FALSE, font_style |-> FALSE, strikethrough |-> FALSE,
     background_color |-> FALSE, underline |-> FALSE, color |-> 0]

\* cx.theme().link, the colour of every link
ThemeLink == 1

IsEmptyRange(r) == r.start >= r.end

NonEmptyRanges(hs) == SelectSeq(hs, LAMBDA h : ~IsEmptyRange(h.range))

\* The style of x with y laid over it: flags are OR-ed, x keeps its colour.
Highlight(x, y) ==
    [font_weight |-> x.font_weight \/ y.font_weight,
     font_style |-> x.font_style \/ y.font_style,
     strikethrough |-> x.strikethrough \/ y.strikethrough,
     background_color |-> x.background_color \/ y.background_color,
     underline |-> x.underline \/ y.underline,
     color |-> IF x.color # 0 THEN x.color ELSE y.color]

RECURSIVE SortedSeq(_)
\* The elements of a finite set of numbers in increasing order.
SortedSeq(S) ==
    IF S = {}
    THEN <<>>
    ELSE LET m == CHOOSE x \in S : \A y \in S : x <= y
         IN  <<m>> \o SortedSeq(S \ {m})

\* The start and end boundaries of the ranges of hs.
Boundaries(hs) ==
    {hs[i].range.start : i \in 1..Len(hs)} \cup {hs[i].range.end : i \in 1..Len(hs)}

Covers(h, lo, hi) == h.range.start <= lo /\ hi <= h.range.end

RECURSIVE CombinedStyle(_, _, _, _)
\* The styles of the ranges of hs[k..] that cover [lo, hi), laid in order.
CombinedStyle(hs, k, lo, hi) ==
    IF k > Len(hs)
    THEN DefaultHighlight
    ELSE IF Covers(hs[k], lo, hi)
         THEN Highlight(hs[k].style, CombinedStyle(hs, k + 1, lo, hi))
         ELSE CombinedStyle(hs, k + 1, lo, hi)

\* A merge in which the second list's colour wins over the first's.
combine_highlights_b_first(a, b) ==
    LET all == NonEmptyRanges(b) \o NonEmptyRanges(a)
        bs == SortedSeq(Boundaries(all))
        segs == [i \in 1..(Len(bs) - 1) |->
                    [range |-> [start |-> bs[i], end |-> bs[i + 1]],
                     style |-> CombinedStyle(all, 1, bs[i], bs[i + 1])]]
    IN  SelectSeq(segs, LAMBDA g :
            \E k \in 1..Len(all) : Covers(all[k], g.range.start, g.range.end))

combine_highlights(a, b) ==
    LET all == NonEmptyRanges(a) \o NonEmptyRanges(b)
        bs == SortedSeq(Boundaries(all))
        segs == [i \in 1..(Len(bs) - 1) |->
                    [range |-> [start |-> bs[i], end |-> bs[i + 1]],
                     style |-> CombinedStyle(all, 1, bs[i], bs[i + 1])]]
    IN  SelectSeq(segs, LAMBDA g :
            \E k \in 1..Len(all) : Covers(all[k], g.range.start, g.range.end))

\* The styles the two lists of a merge are drawn from.
StylesA ==
    {[DefaultHighlight EXCEPT !.font_weight = TRUE],
     [DefaultHighlight EXCEPT !.underline = TRUE, !.color = 1]}
StylesB ==
    {[DefaultHighlight EXCEPT !.font_style = TRUE, !.strikethrough = TRUE],
     [DefaultHighlight EXCEPT !.underline = TRUE, !.background_color = TRUE,
                              !.color = 2]}

RangesUpTo(n) ==
    {[start |-> lo, end |-> hi] : lo \in 0..n, hi \in 0..n} \ 
        {r \in [start : 0..n, end : 0..n] : r.start > r.end}

\* Sorted lists of at most MaxRanges ranges over 0..MaxPos, none overlapping
\* the next, zero-length ranges included, styled from S.
IsSortedDisjoint(hs) ==
    \A i \in 1..(Len(hs) - 1) : hs[i].range.end <= hs[i + 1].range.start

RangeLists(S) ==
    {hs \in UNION {[1..n -> [range : RangesUpTo(MaxPos), style : S]] :
                      n \in 0..MaxRanges} : IsSortedDisjoint(hs)}

Merge ==
    /\ mpc = "start"
    /\ merged' = combine_highlights(arg_a, arg_b)
    /\ mpc' = "merged"
    /\ UNCHANGED <<arg_a, arg_b, pvars, nvars, rvars, tvars, lvars>>

(***************************************************************************)
(* Paragraph::render.                                                      *)
(***************************************************************************)
\* element.rs 285-308: the HighlightStyle of an InlineTextStyle
HighlightOf(style) ==
    [font_weight |-> style.bold,
     font_style |-> style.italic,
     strikethrough |-> style.strikethrough,
     background_color |-> style.code,
     underline |-> style.link # None,
     color |-> IF style.link # None THEN ThemeLink ELSE 0]

\* (offset + range.start)..(offset + range.end)
InnerRange(off, range) ==
    [start |-> off + range.start, end |-> off + range.end]

\* An offset that is assigned the run's length instead of advanced by it.
NextOffsetAssigned(off, text_len) == text_len

\* offset += text_len
NextOffset(off, text_len) == off + text_len

\* The node_highlights of one text node at the given offset.
NodeHighlights(text_node, off) ==
    [j \in 1..Len(text_node.marks) |->
        [range |-> InnerRange(off, text_node.marks[j].range),
         style |-> HighlightOf(text_node.marks[j].style)]]

\* The links one text node pushes at the given offset.
NodeLinks(text_node, off) ==
    LET linked == SelectSeq(text_node.marks, LAMBDA m : m.style.link # None)
    IN  [j \in 1..Len(linked) |->
            [range |-> InnerRange(off, linked[j].range),
             link |-> linked[j].style.link[1]]]

\* One pass of the loop over the children (element.rs 277-318).
ComposeNode ==
    /\ rpara.kind = "Texts"
    /\ rix < Len(rpara.children)
    /\ LET text_node == rpara.children[rix + 1]
           text_len == Len(text_node.text)
       IN  /\ text' = text \o text_node.text
           /\ links' = links \o NodeLinks(text_node, offset)
           /\ highlights' =
                  combine_highlights(highlights, NodeHighlights(text_node, offset))
           /\ offset' = NextOffset(offset, text_len)
    /\ rix' = rix + 1
    /\ UNCHANGED <<rpara, rpc, ivars, pvars, nvars, mvars, tvars, lvars>>

\* links.iter().map(|(range, _)| range.clone()).collect::<Vec<_>>()
LinkRanges(ls) == [k \in 1..Len(ls) |-> ls[k].range]

\* links.get(ix)
LinksGet(ls, c) == IF c < Len(ls) THEN Some(ls[c + 1]) ELSE None

StopPropagation == [call |-> "stop_propagation"]
OpenUrl(url) == [call |-> "open_url", url |-> url]

\* A click handler that opens the URL and leaves the click propagating.
on_click_open_only(ls, c) ==
    IF LinksGet(ls, c) # None
    THEN <<OpenUrl(LinksGet(ls, c)[1].link.url)>>
    ELSE <<>>

\* The closure handed to on_click, called with ix = c over the captured
\* links: the calls it makes on cx, in order (element.rs 331-339).
on_click(ls, c) ==
    IF LinksGet(ls, c) # None
    THEN <<StopPropagation, OpenUrl(LinksGet(ls, c)[1].link.url)>>
    ELSE <<>>

\* After the loop: the click ranges of the links and the InteractiveText
\* with its click handler (element.rs 320-341).
BuildInteractive ==
    /\ rpara.kind = "Texts"
    /\ rpc = "loop"
    /\ rix = Len(rpara.children)
    /\ link_ranges' = LinkRanges(links)
    /\ rpc' = "built"
    /\ UNCHANGED <<rpara, rix, text, highlights, links, offset,
                   click_ix, effects, propagate, fired,
                   pvars, nvars, mvars, tvars, lvars>>

\* The click handler runs with the index the dispatcher reports.  The
\* handler accepts any usize: the indexes tried are those of link_ranges and
\* the first one past its end.  A click propagates until a handler calls
\* cx.stop_propagation().
ClickHandler ==
    \E c \in 0..Len(link_ranges) :
        /\ rpc \in {"built", "dispatched"}
        /\ click_ix' = c
        /\ effects' = on_click(links, c)
        /\ propagate' =
               (\A k \in 1..Len(on_click(links, c)) :
                    on_click(links, c)[k] # StopPropagation)
        /\ fired' = FALSE
        /\ rpc' = "handled"
        /\ UNCHANGED <<rpara, rix, text, highlights, links, offset,
                       link_ranges, pvars, nvars, mvars, tvars, lvars>>

\* The dispatcher offers the click to the enclosing elements: their handler
\* runs unless propagation was stopped.
DispatchToParent ==
    /\ rpc = "handled"
    /\ fired' = propagate
    /\ rpc' = "dispatched"
    /\ UNCHANGED <<rpara, rix, text, highlights, links, offset,
                   link_ranges, click_ix, effects, propagate,
                   pvars, nvars, mvars, tvars, lvars>>

\* The text nodes of the paragraphs handed to render: every mark satisfies
\* 0 <= start <= end <= text.len().
ItalicStyle == [DefaultStyle EXCEPT !.italic = TRUE]
CodeStrikeStyle == [DefaultStyle EXCEPT !.code = TRUE, !.strikethrough = TRUE]
Link2Style == [DefaultStyle EXCEPT !.link = Some([url |-> "l2", title |-> Some("t2")])]
Mark(lo, hi, style) == [range |-> [start |-> lo, end |-> hi], style |-> style]

ComposeNodeSet ==
    TextNodeSet
    \cup {[text |-> "", marks |-> <<Mark(0, 0, DefaultStyle)>>],
          [text |-> "ab", marks |-> <<>>],
          [text |-> "cde", marks |->
              <<Mark(0, 1, ItalicStyle), Mark(2, 3, CodeStrikeStyle)>>],
          [text |-> "cde", marks |->
              <<Mark(1, 3, Link2Style), Mark(0, 2, LinkStyle)>>]}
    \cup {[text |-> "ab", marks |-> <<Mark(r.start, r.end, s)>>] :
              r \in RangesUpTo(2), s \in {BoldStyle, LinkStyle}}

ComposeInputs ==
    {[kind |-> "Texts", span |-> sp, children |-> cs] :
        sp \in {None},
        cs \in UNION {[1..n -> ComposeNodeSet] : n \in 0..MaxChildren}}

(***************************************************************************)
(* Paragraph::is_empty and Paragraph::text_len.                            *)
(***************************************************************************)
Max(a, b) == IF a >= b THEN a ELSE b
Min(a, b) == IF a <= b THEN a ELSE b

RECURSIVE MaxTextLen(_, _)
\* len after the first n passes of: len = text_node.text.len().max(len)
MaxTextLen(children, n) ==
    IF n = 0
    THEN 0
    ELSE Max(Len(children[n].text), MaxTextLen(children, n - 1))

\* A text_len that adds the run lengths up.
RECURSIVE SumOfTextLens(_, _)
SumOfTextLens(children, n) ==
    IF n = 0
    THEN 0
    ELSE Len(children[n].text) + SumOfTextLens(children, n - 1)

text_len_sum(self) ==
    IF self.kind = "Texts"
    THEN SumOfTextLens(self.children, Len(self.children))
    ELSE 1

text_len(self) ==
    IF self.kind = "Texts"
    THEN MaxTextLen(self.children, Len(self.children))
    ELSE 1

is_empty(self) ==
    IF self.kind = "Texts" THEN text_len(self) = 0 ELSE FALSE

\* A call of text_len on the paragraph being edited; &self is not changed.
TextLen ==
    /\ ret' = Some(text_len(para))
    /\ prev' = para
    /\ op' = [name |-> "text_len", arg |-> None]
    /\ UNCHANGED <<para, nvars, rvars, mvars, tvars, lvars>>

\* A call of is_empty on the paragraph being edited; &self is not changed.
IsEmpty ==
    /\ ret' = Some(is_empty(para))
    /\ prev' = para
    /\ op' = [name |-> "is_empty", arg |-> None]
    /\ UNCHANGED <<para, nvars, rvars, mvars, tvars, lvars>>

(***************************************************************************)
(* Table and Node::render_table.  Column and row indexes are 0-based as in *)
(* the source; sequences are 1-based.                                      *)
(***************************************************************************)
DEFAULT_LENGTH == 5
MAX_LENGTH == 150

EmptyDiv == [kind |-> "div", children |-> <<>>]

TableNode(rows, aligns) ==
    [kind |-> "Table", table |-> [children |-> rows, column_aligns |-> aligns]]

\* self.column_aligns.get(index).copied().unwrap_or_default()
column_align(table, index) ==
    IF index < Len(table.column_aligns)
    THEN table.column_aligns[index + 1]
    ELSE "Left"

\* A sizing step that stores the width already clamped to MAX_LENGTH.
SizeCellClamped(lens, cix, cell) ==
    LET grown == IF Len(lens) <= cix THEN Append(lens, DEFAULT_LENGTH) ELSE lens
        len == Min(text_len(cell.children), MAX_LENGTH)
    IN  IF len > grown[cix + 1] THEN [grown EXCEPT ![cix + 1] = len] ELSE grown

\* The body of the inner loop (element.rs 454-461) for the cell at cix.
SizeCell(lens, cix, cell) ==
    LET grown == IF Len(lens) <= cix THEN Append(lens, DEFAULT_LENGTH) ELSE lens
        len == text_len(cell.children)
    IN  IF len > grown[cix + 1] THEN [grown EXCEPT ![cix + 1] = len] ELSE grown

\* A sizing that measures only the first cell of a row.
SizeRowFirstCell(lens, row, n) ==
    IF n = 0 THEN lens ELSE SizeCell(lens, 0, row.children[1])

RECURSIVE SizeRow(_, _, _)
\* col_lens after the first n cells of the row (element.rs 453-462).
SizeRow(lens, row, n) ==
    IF n = 0
    THEN lens
    ELSE SizeCell(SizeRow(lens, row, n - 1), n - 1, row.children[n])

RECURSIVE SizeRows(_, _, _)
\* col_lens after the first n rows (element.rs 452-463).
SizeRows(lens, rows, n) ==
    IF n = 0
    THEN lens
    ELSE SizeRow(SizeRows(lens, rows, n - 1), rows[n], Len(rows[n].children))

\* col_lens.get(ix).copied()
ColLensGet(lens, cix) == IF cix < Len(lens) THEN Some(lens[cix + 1]) ELSE None

\* col_lens.get(ix).copied().unwrap_or(MAX_LENGTH).min(MAX_LENGTH)
CellWidth(lens, cix) ==
    LET got == ColLensGet(lens, cix)
    IN  Min(IF got # None THEN got[1] ELSE MAX_LENGTH, MAX_LENGTH)

\* let is_last_col = ix == row.children.len() - 1
IsLastCol(row, cix) == cix = Len(row.children) - 1

\* row_ix < table.children.len() - 1
HasBorderB(table, row_ix) == row_ix < Len(table.children) - 1

\* The cell pushed for the cell at cix of the row (element.rs 490-518).
RenderCell(table, lens, row, cix) ==
    [kind |-> "cell",
     align |-> column_align(table, cix),
     w |-> CellWidth(lens, cix),
     border_r |-> ~IsLastCol(row, cix),
     children |-> <<row.children[cix + 1].children>>]

\* The row pushed for the row at row_ix (element.rs 479-522).
RenderRow(table, lens, row_ix) ==
    LET row == table.children[row_ix + 1]
    IN  [kind |-> "row",
         border_b |-> HasBorderB(table, row_ix),
         children |-> [c \in 1..Len(row.children) |->
                          RenderCell(table, lens, row, c - 1)]]

render_table(item) ==
    LET lens == IF item.kind = "Table"
                THEN SizeRows(<<>>, item.table.children, Len(item.table.children))
                ELSE <<>>
    IN  IF item.kind = "Table"
        THEN [kind |-> "table",
              children |-> [r \in 1..Len(item.table.children) |->
                               RenderRow(item.table, lens, r - 1)]]
        ELSE EmptyDiv

\* One pass of the outer sizing loop (element.rs 452-463).
SizeTableRow ==
    /\ tpc = "size"
    /\ tix < Len(tnode.table.children)
    /\ LET row == tnode.table.children[tix + 1]
       IN  col_lens' = SizeRow(col_lens, row, Len(row.children))
    /\ tix' = tix + 1
    /\ UNCHANGED <<tnode, trows, tpc, evars, pvars, nvars, rvars, mvars, lvars>>

\* The sizing loop is over: col_lens is final (element.rs 464-469).
StartRenderRows ==
    /\ tpc = "size"
    /\ tix = Len(tnode.table.children)
    /\ tpc' = "render"
    /\ tix' = 0
    /\ UNCHANGED <<tnode, col_lens, trows, evars, pvars, nvars, rvars, mvars,
                   lvars>>

\* What col_lens.get(ix) returns for each cell of the row (element.rs 493).
RowGets(lens, row) ==
    [c \in 1..Len(row.children) |-> ColLensGet(lens, c - 1)]

\* The len() of each "len() - 1" evaluated while the row is rendered: that
\* of the table's rows once (element.rs 484), then that of the row's cells
\* once per cell (element.rs 492).
RowMinuends(table, row) ==
    <<Len(table.children)>>
        \o [c \in 1..Len(row.children) |-> Len(row.children)]

\* One pass of the loop over the rows (element.rs 479-523).
RenderTableRow ==
    /\ tpc = "render"
    /\ tix < Len(tnode.table.children)
    /\ trows' = Append(trows, RenderRow(tnode.table, col_lens, tix))
    /\ gets' = gets \o RowGets(col_lens, tnode.table.children[tix + 1])
    /\ minuends' =
           minuends \o RowMinuends(tnode.table, tnode.table.children[tix + 1])
    /\ tix' = tix + 1
    /\ UNCHANGED <<tnode, col_lens, tpc, pvars, nvars, rvars, mvars, lvars>>

\* The cells of the tables handed to render_table: a short text, a text of
\* two runs (4 and 7 bytes) and a text of 200 bytes.
Text200 ==
    "01234567890123456789012345678901234567890123456789012345678901234567890123456789012345678901234567890123456789012345678901234567890123456789012345678901234567890123456789012345678901234567890123456789"
TextsOf(runs) ==
    [kind |-> "Texts", span |-> None,
     children |-> [i \in 1..Len(runs) |-> [text |-> runs[i], marks |-> <<>>]]]
CellSet ==
    {[children |-> p, width |-> None] :
        p \in {TextsOf(<<"abc">>), TextsOf(<<"abcd", "abcdefg">>),
               TextsOf(<<Text200>>)}}
RowSet == {[children |-> cs] : cs \in UNION {[1..n -> CellSet] : n \in 0..MaxCols}}
TableSet ==
    {TableNode(rows, aligns) :
        rows \in UNION {[1..n -> RowSet] : n \in 0..MaxRows},
        aligns \in {<<"Center">>}}

(***************************************************************************)
(* ListState, Node::render and Node::render_list_item.  A rendered element *)
(* is a record of its kind, the settings the claims read and its children. *)
(* list_item_prefix (utils) is kept as the element of its three arguments. *)
(***************************************************************************)
\* #[derive(Default)] ListState
DefaultListState == [todo |-> FALSE, ordered |-> FALSE, depth |-> 0]

ListItem(children, spread, checked) ==
    [kind |-> "ListItem", children |-> children, spread |-> spread,
     checked |-> checked]

\* let mb = if in_list || is_last_child { rems(0.) } else { paragraph_gap }
MarginBottom(list_state, is_last_child) ==
    IF list_state # None \/ is_last_child THEN "0" ELSE "paragraph_gap"

\* The state a List hands to its items (element.rs 591, 599-603).
ItemState(ordered, list_state) ==
    LET given == IF list_state = None THEN DefaultListState ELSE list_state[1]
    IN  [ordered |-> ordered, todo |-> given.todo, depth |-> given.depth]

\* A child state that keeps the depth of the item.
ChildStateSameDepth(state, checked) ==
    [depth |-> state.depth, ordered |-> state.ordered,
     todo |-> checked # None]

\* The state a ListItem hands to its children (element.rs 411-415, 425-429).
ChildState(state, checked) ==
    [depth |-> state.depth + 1, ordered |-> state.ordered,
     todo |-> checked # None]

\* A prefix condition that forgets the enclosing checklist.
ShowsPrefixIgnoringTodo(state, checked) == checked = None

\* !state.todo && checked.is_none()
ShowsPrefix(state, checked) == ~state.todo /\ checked = None

\* An index that advances for every child.
NextIxAlways(n, is_item) == n + 1

\* if is_item { ix += 1; }
NextIx(n, is_item) == IF is_item THEN n + 1 ELSE n

\* The checkbox of a checklist item (element.rs 391-408).
Checkbox(checked) ==
    [kind |-> "checkbox",
     children |-> IF checked THEN <<[kind |-> "Icon", name |-> "Check"]>>
                  ELSE <<>>]

RECURSIVE render(_, _, _), render_list_item(_, _, _), RenderItems(_, _, _, _)

\* The element pushed for one child of a ListItem (element.rs 378-437);
\* <<>> for a child that is neither a Paragraph nor a List.
ItemChild(child, checked, n, state) ==
    IF child.kind = "Paragraph"
    THEN <<[kind |-> "h_flex",
            children |->
                (IF ShowsPrefix(state, checked)
                 THEN <<[kind |-> "list_item_prefix", ix |-> n,
                         ordered |-> state.ordered, depth |-> state.depth]>>
                 ELSE <<>>)
                \o (IF checked # None THEN <<Checkbox(checked[1])>> ELSE <<>>)
                \o <<render(child, Some(ChildState(state, checked)), TRUE)>>]>>
    ELSE IF child.kind = "List"
    THEN <<[kind |-> "div_ml",
            children |->
                <<render(child, Some(ChildState(state, checked)), TRUE)>>]>>
    ELSE <<>>

RECURSIVE ItemChildren(_, _, _, _, _)
\* items after the first k children of a ListItem (element.rs 376-439).
ItemChildren(children, k, checked, n, state) ==
    IF k = 0
    THEN <<>>
    ELSE ItemChildren(children, k - 1, checked, n, state)
             \o ItemChild(children[k], checked, n, state)

render_list_item(item, n, state) ==
    IF item.kind = "ListItem"
    THEN [kind |-> "v_flex",
          children |->
              (IF item.spread THEN <<EmptyDiv>> ELSE <<>>)
              \o ItemChildren(item.children, Len(item.children),
                              item.checked, n, state)]
    ELSE EmptyDiv

\* [items, ix] after the first k children of a List (element.rs 590-613).
RenderItems(children, k, ordered, list_state) ==
    IF k = 0
    THEN [items |-> <<>>, ix |-> 0]
    ELSE LET before == RenderItems(children, k - 1, ordered, list_state)
             item == children[k]
         IN  [items |-> Append(before.items,
                               render_list_item(item, before.ix,
                                                ItemState(ordered, list_state))),
              ix |-> NextIx(before.ix, is_list_item(item))]

render(self, list_state, is_last_child) ==
    LET mb == MarginBottom(list_state, is_last_child)
    IN  CASE self.kind = "Root" ->
                 [kind |-> "div",
                  children |-> [c \in 1..Len(self.children) |->
                                   render(self.children[c], None,
                                          c - 1 = Len(self.children) - 1)]]
          [] self.kind = "Paragraph" ->
                 [kind |-> "div", mb |-> mb, children |-> <<self.para>>]
          [] self.kind = "Heading" ->
                 [kind |-> "h_flex", level |-> self.level,
                  children |-> <<self.children>>]
          [] self.kind = "Blockquote" ->
                 [kind |-> "blockquote", mb |-> mb, children |-> <<self.para>>]
          [] self.kind = "List" ->
                 [kind |-> "v_flex", mb |-> mb,
                  children |-> RenderItems(self.children, Len(self.children),
                                           self.ordered, list_state).items]
          [] self.kind = "CodeBlock" ->
                 [kind |-> "code", mb |-> mb, children |-> <<self.code>>]
          [] self.kind = "Table" -> render_table(self)
          [] self.kind = "Divider" ->
                 [kind |-> "divider", mb |-> mb, children |-> <<>>]
          [] self.kind = "Break" -> EmptyDiv
          [] self.kind = "Ignore" -> EmptyDiv
          [] OTHER -> EmptyDiv

\* One pass of the loop over the children of a List (element.rs 593-612).
RenderListChild ==
    /\ lpos < Len(lnode.children)
    /\ LET item == lnode.children[lpos + 1]
           is_item == is_list_item(item)
           state == ItemState(lnode.ordered, lstate)
       IN  /\ items' = Append(items, render_list_item(item, ix, state))
           /\ calls' = Append(calls, [ix |-> ix, state |-> state])
           /\ ix' = NextIx(ix, is_item)
    /\ lpos' = lpos + 1
    /\ UNCHANGED <<lnode, lstate, dvars, pvars, nvars, rvars, mvars, tvars>>

RECURSIVE IxAfter(_, _)
\* ix after the first k children of a List (element.rs 592, 609-611).
IxAfter(children, k) ==
    IF k = 0
    THEN 0
    ELSE NextIx(IxAfter(children, k - 1), is_list_item(children[k]))

RECURSIVE ItemCalls(_, _, _)
\* The render_list_item calls on a ListItem made while self, the node at
\* path, is rendered with list_state: the call of a List for each of its
\* ListItem children and the calls made below the Paragraph and List
\* children of that item; a Root renders each child with None.
ItemCalls(self, list_state, path) ==
    CASE self.kind = "Root" ->
             UNION {ItemCalls(self.children[c], None, Append(path, c)) :
                        c \in 1..Len(self.children)}
      [] self.kind = "List" ->
             UNION {LET item == self.children[k]
                        n == IxAfter(self.children, k - 1)
                        state == ItemState(self.ordered, list_state)
                        here == Append(path, k)
                    IN  IF is_list_item(item)
                        THEN {[path |-> here, ix |-> n, state |-> state]}
                             \cup
                             UNION {IF item.children[j].kind
                                           \in {"Paragraph", "List"}
                                    THEN ItemCalls(item.children[j],
                                             Some(ChildState(state, item.checked)),
                                             Append(here, j))
                                    ELSE {} :
                                        j \in 1..Len(item.children)}
                        ELSE {} :
                            k \in 1..Len(self.children)}
      [] OTHER -> {}

\* One child of the Root is rendered (element.rs 551-554).
RenderRootChild ==
    /\ doc.kind = "Root"
    /\ dpos < Len(doc.children)
    /\ LET c == doc.children[dpos + 1]
           is_last_child == dpos = Len(doc.children) - 1
       IN  /\ dout' = Append(dout, render(c, None, is_last_child))
           /\ seen' = seen \cup ItemCalls(c, None, <<dpos + 1>>)
    /\ dpos' = dpos + 1
    /\ UNCHANGED <<doc, lnode, lstate, lpos, ix, items, calls,
                   pvars, nvars, rvars, mvars, tvars>>

\* The children of the lists handed to render: plain, checked and unchecked
\* items, spread or not, holding paragraphs, nested lists and other nodes;
\* and stray children that are no ListItem.
NoteParagraph == ParagraphNode(TextsOf(<<"note">>))
NestedList ==
    List(<<ListItem(<<NoteParagraph>>, FALSE, None),
           ListItem(<<NoteParagraph>>, FALSE, Some(FALSE))>>, TRUE)
ListChildSet ==
    {ListItem(<<NoteParagraph>>, FALSE, None),
     ListItem(<<NoteParagraph, NestedList>>, TRUE, Some(TRUE)),
     ListItem(<<Break, NoteParagraph, NoteParagraph>>, FALSE, Some(FALSE)),
     ListItem(<<NestedList, Ignore>>, FALSE, None),
     NoteParagraph,
     Break}
ListSet ==
    {List(cs, ordered) :
        cs \in UNION {[1..n -> ListChildSet] : n \in 0..MaxItems},
        ordered \in BOOLEAN}
ListStateSet ==
    {None, Some([todo |-> TRUE, ordered |-> FALSE, depth |-> 1]),
     Some([todo |-> FALSE, ordered |-> TRUE, depth |-> 2])}

\* The documents handed to render: a Root of lists and paragraphs, the
\* lists holding items, checked or not, and stray paragraphs, and the items
\* holding paragraphs and nested lists.  The level of n nodes is the
\* sequences of children of a List and the sequences of children of a
\* ListItem or Root of n nodes in all, and the lists and the items that hold
\* them; levels[s + 1] is the level of s nodes.
DocLevel(levels, n) ==
    LET Leaf(k) == IF k = 1 THEN {NoteParagraph} ELSE {}
        item_seqs ==
            IF n = 0 THEN {<<>>}
            ELSE UNION {{<<t>> \o f : t \in levels[k].items \cup Leaf(k),
                                      f \in levels[n - k + 1].item_seqs} :
                           k \in 1..n}
        list_seqs ==
            IF n = 0 THEN {<<>>}
            ELSE UNION {{<<t>> \o f : t \in levels[k].lists \cup Leaf(k),
                                      f \in levels[n - k + 1].list_seqs} :
                           k \in 1..n}
    IN  [item_seqs |-> item_seqs,
         list_seqs |-> list_seqs,
         lists |-> {List(cs, ordered) :
                       cs \in item_seqs, ordered \in BOOLEAN},
         items |-> {ListItem(cs, FALSE, checked) :
                       cs \in list_seqs, checked \in {None, Some(TRUE)}}]

RECURSIVE DocLevels(_)
\* The levels of 0 to n nodes.
DocLevels(n) ==
    IF n = 0
    THEN <<DocLevel(<<>>, 0)>>
    ELSE LET levels == DocLevels(n - 1)
         IN  Append(levels, DocLevel(levels, n))

Levels == DocLevels(MaxTreeNodes - 1)

\* d is a Root of lists and paragraphs of at most MaxTreeNodes nodes in all.
IsDoc(d) ==
    \/ d = Root(<<>>)
    \/ \E k \in 1..MaxTreeNodes :
         \E t \in Levels[k].lists \cup (IF k = 1 THEN {NoteParagraph} ELSE {}) :
           \E s \in 0..(MaxTreeNodes - k) : \E f \in Levels[s + 1].list_seqs :
               d = Root(<<t>> \o f)

(***************************************************************************)
(* Specifications.                                                         *)
(***************************************************************************)
InitParagraph ==
    /\ para = DefaultParagraph
    /\ prev = DefaultParagraph
    /\ op = [name |-> "default", arg |-> None]
    /\ ret = None

IdleCompact ==
    /\ node = Ignore
    /\ out = Ignore
    /\ passes = 0

IdleRender ==
    /\ rpara = DefaultParagraph
    /\ rix = 0
    /\ text = ""
    /\ highlights = <<>>
    /\ links = <<>>
    /\ offset = 0
    /\ rpc = "loop"
    /\ link_ranges = <<>>
    /\ click_ix = 0
    /\ effects = <<>>
    /\ propagate = TRUE
    /\ fired = FALSE

IdleMerge ==
    /\ arg_a = <<>>
    /\ arg_b = <<>>
    /\ merged = <<>>
    /\ mpc = "start"

IdleTable ==
    /\ tnode = TableNode(<<>>, <<>>)
    /\ col_lens = <<>>
    /\ trows = <<>>
    /\ tpc = "size"
    /\ tix = 0
    /\ gets = <<>>
    /\ minuends = <<>>

IdleDoc ==
    /\ doc = Root(<<>>)
    /\ dpos = 0
    /\ dout = <<>>
    /\ seen = {}

IdleList ==
    /\ lnode = [kind |-> "List", children |-> <<>>, ordered |-> FALSE]
    /\ lstate = None
    /\ lpos = 0
    /\ ix = 0
    /\ items = <<>>
    /\ calls = <<>>
    /\ IdleDoc

Init ==
    /\ InitParagraph
    /\ IdleCompact
    /\ IdleRender
    /\ IdleMerge
    /\ IdleTable
    /\ IdleList

Next == Clear \/ SetSpan \/ PushStr \/ Push \/ SetImage \/ TextLen \/ IsEmpty

Spec == Init /\ [][Next]_vars

InitCompact ==
    /\ InitParagraph
    /\ IdleRender
    /\ IdleMerge
    /\ IdleTable
    /\ IdleList
    /\ node \in Trees
    /\ out = node
    /\ passes = 0

NextCompact == Compact \/ Recompact

SpecCompact == InitCompact /\ [][NextCompact]_vars

\* Paragraph::render starts with an empty text, no highlights, no links and
\* offset 0 (element.rs 272-275).
InitCompose ==
    /\ InitParagraph
    /\ IdleCompact
    /\ IdleMerge
    /\ IdleTable
    /\ IdleList
    /\ rpara \in ComposeInputs
    /\ rix = 0
    /\ text = ""
    /\ highlights = <<>>
    /\ links = <<>>
    /\ offset = 0
    /\ rpc = "loop"
    /\ link_ranges = <<>>
    /\ click_ix = 0
    /\ effects = <<>>
    /\ propagate = TRUE
    /\ fired = FALSE

NextCompose ==
    ComposeNode \/ BuildInteractive \/ ClickHandler \/ DispatchToParent

SpecCompose == InitCompose /\ [][NextCompose]_vars

InitMerge ==
    /\ InitParagraph
    /\ IdleCompact
    /\ IdleRender
    /\ IdleTable
    /\ IdleList
    /\ arg_a \in RangeLists(StylesA)
    /\ arg_b \in RangeLists(StylesB)
    /\ merged = <<>>
    /\ mpc = "start"

NextMerge == Merge

SpecMerge == InitMerge /\ [][NextMerge]_vars

\* render_table starts with col_lens = vec![] (element.rs 451).
InitTable ==
    /\ InitParagraph
    /\ IdleCompact
    /\ IdleRender
    /\ IdleMerge
    /\ IdleList
    /\ tnode \in TableSet
    /\ col_lens = <<>>
    /\ trows = <<>>
    /\ tpc = "size"
    /\ tix = 0
    /\ gets = <<>>
    /\ minuends = <<>>

NextTable == SizeTableRow \/ StartRenderRows \/ RenderTableRow

SpecTable == InitTable /\ [][NextTable]_vars

\* The loop over a List's children starts with ix = 0 and no items
\* (element.rs 590-592).
InitList ==
    /\ InitParagraph
    /\ IdleCompact
    /\ IdleRender
    /\ IdleMerge
    /\ IdleTable
    /\ lnode \in ListSet
    /\ lstate \in ListStateSet
    /\ lpos = 0
    /\ ix = 0
    /\ items = <<>>
    /\ calls = <<>>
    /\ IdleDoc

NextList == RenderListChild

SpecList == InitList /\ [][NextList]_vars

\* Rendering a document starts at its Root with nothing rendered.
InitDoc ==
    /\ InitParagraph
    /\ IdleCompact
    /\ IdleRender
    /\ IdleMerge
    /\ IdleTable
    /\ lnode = [kind |-> "List", children |-> <<>>, ordered |-> FALSE]
    /\ lstate = None
    /\ lpos = 0
    /\ ix = 0
    /\ items = <<>>
    /\ calls = <<>>
    /\ IsDoc(doc)
    /\ dpos = 0
    /\ dout = <<>>
    /\ seen = {}

NextDoc == RenderRootChild

SpecDoc == InitDoc /\ [][NextDoc]_vars

(***************************************************************************)
(* Claims about Node::compact, checked under SpecCompact.                  *)
(***************************************************************************)
\* Root{children: [Ignore, X]}
IsIgnoreThenX(n) ==
    /\ n.kind = "Root"
    /\ Len(n.children) = 2
    /\ n.children[1] = Ignore

\* C1: compact is idempotent: once compact has been applied, applying it to
\* its own result returns that result, for every tree.
C1_CompactIdempotent == passes >= 1 => compact(out) = out

\* C1 witness: a nested Root was unwrapped and compact was applied again.
C1_Witness ==
    /\ passes = 2
    /\ node.kind = "Root"
    /\ \E i \in 1..Len(node.children) : node.children[i].kind = "Root"
    /\ out # node

\* C2: for a Root whose compacted, non-Ignore children do not number exactly
\* one, compact returns a Root holding exactly those filtered, compacted
\* children in order.
C2_RootOfFilteredChildren ==
    (passes = 1 /\ node.kind = "Root" /\ Len(CompactedChildren(node)) # 1)
        => out = Root(CompactedChildren(node))

\* C3 as stated: for every X, Ignore included, compact(Root[Ignore, X]) is
\* compact(X); and a Root with exactly one compacted, non-Ignore child
\* compacts to that child's compaction.
C3_Original ==
    /\ (passes = 1 /\ IsIgnoreThenX(node)) => out = compact(node.children[2])
    /\ (passes = 1 /\ node.kind = "Root" /\ Len(CompactedChildren(node)) = 1)
          => out = CompactedChildren(node)[1]

\* C3 amended: for every X other than Ignore, compact(Root[Ignore, X]) is
\* compact(X); and a Root with exactly one compacted, non-Ignore child
\* compacts to that child's compaction, with no Root wrapped around it.
C3_IgnoreThenX ==
    /\ (passes = 1 /\ IsIgnoreThenX(node) /\ node.children[2] # Ignore)
          => out = compact(node.children[2])
    /\ (passes = 1 /\ node.kind = "Root" /\ Len(CompactedChildren(node)) = 1)
          => out = CompactedChildren(node)[1]

\* C3 witness: Root[Ignore, Root[Paragraph]] was compacted to the Paragraph.
C3_Witness ==
    /\ passes = 1
    /\ IsIgnoreThenX(node)
    /\ node.children[2].kind = "Root"
    /\ out.kind = "Paragraph"

(***************************************************************************)
(* Claims about Paragraph::render, checked under SpecCompose.              *)
(***************************************************************************)
RECURSIVE SumTextLen(_, _)
\* The sum of the text lengths of the first n runs of cs.
SumTextLen(cs, n) ==
    IF n = 0 THEN 0 ELSE SumTextLen(cs, n - 1) + Len(cs[n].text)

RangeWithin(r, len) == 0 <= r.start /\ r.start <= r.end /\ r.end <= len

\* C4: after every text node is processed the running offset equals the
\* length of the text concatenated so far, that length is the sum of the
\* lengths of the runs processed (of all runs at the end), and every
\* highlight range and every link range lies within [0, text.length].
C4_ComposeLengths ==
    /\ offset = Len(text)
    /\ Len(text) = SumTextLen(rpara.children, rix)
    /\ \A i \in 1..Len(highlights) : RangeWithin(highlights[i].range, Len(text))
    /\ \A i \in 1..Len(links) : RangeWithin(links[i].range, Len(text))

\* C4 witness: two runs were composed and the second one's link and
\* highlight were shifted by the first one's length.
C4_Witness ==
    /\ rix = 2
    /\ rix = Len(rpara.children)
    /\ Len(rpara.children[1].text) > 0
    /\ \E i \in 1..Len(links) : links[i].range.start >= Len(rpara.children[1].text)
    /\ \E i \in 1..Len(highlights) :
           highlights[i].range.start >= Len(rpara.children[1].text)

RECURSIVE DocLinks(_, _)
\* The link marks of the first n runs in document order, each with its
\* range moved by the lengths of the runs before its own.
DocLinks(cs, n) ==
    IF n = 0
    THEN <<>>
    ELSE LET linked == SelectSeq(cs[n].marks, LAMBDA mk : mk.style.link # None)
         IN  DocLinks(cs, n - 1) \o
             [j \in 1..Len(linked) |->
                [range |-> [start |-> SumTextLen(cs, n - 1) + linked[j].range.start,
                            end |-> SumTextLen(cs, n - 1) + linked[j].range.end],
                 link |-> linked[j].style.link[1]]]

\* C12: once the element is built the click ranges and the link table have
\* the same length and the k-th range is the range of the k-th link mark in
\* document order; a click handled with ix below the number of links stops
\* propagation and then opens the URL of links[ix], and no enclosing
\* handler runs for it; a click handled with any other ix opens nothing and
\* propagation is not stopped.
C12_ClickContract ==
    /\ rpc # "loop" =>
          /\ Len(link_ranges) = Len(links)
          /\ links = DocLinks(rpara.children, Len(rpara.children))
          /\ \A k \in 1..Len(links) : link_ranges[k] = links[k].range
    /\ rpc \in {"handled", "dispatched"} =>
          IF click_ix < Len(links)
          THEN /\ effects = <<StopPropagation,
                               OpenUrl(links[click_ix + 1].link.url)>>
               /\ ~propagate
               /\ rpc = "dispatched" => ~fired
          ELSE /\ effects = <<>>
               /\ propagate

\* C12 witness: a paragraph with two links to different URLs was built, the
\* second link was clicked, its URL was opened after propagation was
\* stopped and the click was dispatched without an enclosing handler
\* running.
C12_Witness ==
    /\ rpc = "dispatched"
    /\ Len(links) = 2
    /\ links[1].link.url # links[2].link.url
    /\ click_ix = 1
    /\ effects = <<StopPropagation, OpenUrl(links[2].link.url)>>
    /\ ~fired

(***************************************************************************)
(* Claims about the merge of style ranges, checked under SpecMerge.        *)
(***************************************************************************)
InRange(h, p) == h.range.start <= p /\ p < h.range.end

CoveredBy(hs, p) == \E i \in 1..Len(hs) : InRange(hs[i], p)

\* The style of the range of hs that holds p; the default where none does.
StyleAt(hs, p) ==
    IF CoveredBy(hs, p)
    THEN hs[CHOOSE i \in 1..Len(hs) : InRange(hs[i], p)].style
    ELSE DefaultHighlight

\* The result is sorted, without overlap and without zero-length ranges;
\* it covers the points A or B covers; its style at a point is the OR of
\* the two styles there with A's link colour first.
MergeIsUnion ==
    /\ \A i \in 1..Len(merged) : merged[i].range.start < merged[i].range.end
    /\ \A i \in 1..(Len(merged) - 1) :
           merged[i].range.end <= merged[i + 1].range.start
    /\ \A p \in 0..MaxPos :
           /\ CoveredBy(merged, p) <=> (CoveredBy(arg_a, p) \/ CoveredBy(arg_b, p))
           /\ CoveredBy(merged, p) =>
                 LET sa == StyleAt(arg_a, p)
                     sb == StyleAt(arg_b, p)
                     sm == StyleAt(merged, p)
                 IN  /\ sm.font_weight = (sa.font_weight \/ sb.font_weight)
                     /\ sm.font_style = (sa.font_style \/ sb.font_style)
                     /\ sm.strikethrough = (sa.strikethrough \/ sb.strikethrough)
                     /\ sm.background_color =
                            (sa.background_color \/ sb.background_color)
                     /\ sm.underline = (sa.underline \/ sb.underline)
                     /\ sm.color = (IF sa.color # 0 THEN sa.color ELSE sb.color)

\* C5 as stated: the merge of two sorted, non-overlapping lists is their
\* styled union, and an empty A or B returns the other list unchanged.
C5_Original ==
    mpc = "merged" =>
        /\ MergeIsUnion
        /\ arg_a = <<>> => merged = arg_b
        /\ arg_b = <<>> => merged = arg_a

\* C5 amended: the merge of two sorted, non-overlapping lists is their
\* styled union with zero-length ranges dropped, and an empty A or B
\* returns the other list without its zero-length ranges.
C5_MergeCorrect ==
    mpc = "merged" =>
        /\ MergeIsUnion
        /\ arg_a = <<>> =>
              merged = SelectSeq(arg_b, LAMBDA h : h.range.start < h.range.end)
        /\ arg_b = <<>> =>
              merged = SelectSeq(arg_a, LAMBDA h : h.range.start < h.range.end)

\* C5 witness: a link range of A and a link range of B overlap in part, and
\* the merge split them into segments.
C5_Witness ==
    /\ mpc = "merged"
    /\ \E i \in 1..Len(arg_a), j \in 1..Len(arg_b) :
           /\ arg_a[i].style.color # 0
           /\ arg_b[j].style.color # 0
           /\ arg_a[i].range.start < arg_b[j].range.start
           /\ arg_b[j].range.start < arg_a[i].range.end
    /\ Len(merged) >= 2

(***************************************************************************)
(* Claims about the rendering of a List, checked under SpecList.           *)
(***************************************************************************)
RECURSIVE CountItems(_, _)
\* The number of ListItem nodes among the first k children.
CountItems(children, k) ==
    IF k = 0
    THEN 0
    ELSE CountItems(children, k - 1)
             + (IF children[k].kind = "ListItem" THEN 1 ELSE 0)

\* C6: numbering starts at 0; the ordinal handed to each ListItem child is
\* the number of ListItem children before it; a child that is no ListItem
\* consumes no number and contributes only an empty placeholder.
C6_ListNumbering ==
    /\ lpos = 0 => ix = 0
    /\ ix = CountItems(lnode.children, lpos)
    /\ Len(items) = lpos
    /\ Len(calls) = lpos
    /\ \A k \in 1..lpos :
           IF lnode.children[k].kind = "ListItem"
           THEN calls[k].ix = CountItems(lnode.children, k - 1)
           ELSE items[k] = [kind |-> "div", children |-> <<>>]

\* C6 witness: the children [ListItem, Paragraph, ListItem, ListItem] were
\* rendered and the items were handed the ordinals 0, 1 and 2.
C6_Witness ==
    /\ lpos = 4
    /\ Len(lnode.children) = 4
    /\ lnode.ordered
    /\ <<lnode.children[1].kind, lnode.children[2].kind,
         lnode.children[3].kind, lnode.children[4].kind>>
           = <<"ListItem", "Paragraph", "ListItem", "ListItem">>
    /\ <<calls[1].ix, calls[3].ix, calls[4].ix>> = <<0, 1, 2>>
    /\ ix = 3

HasChildOfKind(el, kind) ==
    \E c \in 1..Len(el.children) : el.children[c].kind = kind

HasCheckGlyph(el) ==
    \E c \in 1..Len(el.children) :
        /\ el.children[c].kind = "checkbox"
        /\ el.children[c].children = <<[kind |-> "Icon", name |-> "Check"]>>

\* The elements pushed for the Paragraph and List children of a rendered
\* item, without the leading div of a spread item.
PushedFor(el, item) ==
    IF item.spread THEN Tail(el.children) ELSE el.children

\* The Paragraph and List children of an item, in order.
Rendered(item) ==
    SelectSeq(item.children, LAMBDA c : c.kind \in {"Paragraph", "List"})

\* C7: for each Paragraph child of a ListItem the checked-state indicator is
\* shown exactly when checked is Some(_), with the check glyph exactly when
\* it is Some(true); the ordinal/bullet prefix is shown exactly when checked
\* is None and the list state is not a checklist; never both.
C7_PrefixOrIndicator ==
    \A k \in 1..lpos :
        LET item == lnode.children[k]
        IN  item.kind = "ListItem" =>
              /\ Len(PushedFor(items[k], item)) = Len(Rendered(item))
              /\ \A j \in 1..Len(Rendered(item)) :
                     LET el == PushedFor(items[k], item)[j]
                     IN  Rendered(item)[j].kind = "Paragraph" =>
                           /\ el.kind = "h_flex"
                           /\ HasChildOfKind(el, "checkbox") <=> item.checked # None
                           /\ HasCheckGlyph(el) <=> item.checked = <<TRUE>>
                           /\ HasChildOfKind(el, "list_item_prefix") <=>
                                  (item.checked = None /\ ~calls[k].state.todo)
                           /\ ~(HasChildOfKind(el, "checkbox")
                                  /\ HasChildOfKind(el, "list_item_prefix"))

\* C7 witness: in a list that is not a checklist a Some(true) item shows
\* the indicator with its glyph and no prefix, and a None item shows the
\* prefix and no indicator.
C7_Witness ==
    /\ lpos >= 2
    /\ ~calls[1].state.todo
    /\ \E k \in 1..lpos :
           /\ lnode.children[k].kind = "ListItem"
           /\ lnode.children[k].checked = <<TRUE>>
           /\ HasCheckGlyph(items[k].children[2])
           /\ ~HasChildOfKind(items[k].children[2], "list_item_prefix")
    /\ \E k \in 1..lpos :
           /\ lnode.children[k].kind = "ListItem"
           /\ lnode.children[k].checked = None
           /\ lnode.children[k].children[1].kind = "Paragraph"
           /\ HasChildOfKind(items[k].children[1], "list_item_prefix")
           /\ ~HasChildOfKind(items[k].children[1], "checkbox")

RECURSIVE NodeAt(_, _)
\* The node reached from n by the child indexes of path.
NodeAt(n, path) ==
    IF path = <<>> THEN n ELSE NodeAt(n.children[Head(path)], Tail(path))

\* The number of List nodes among the proper ancestors of the node at path.
ListsAbove(n, path) ==
    Cardinality({k \in 0..(Len(path) - 1) :
                    NodeAt(n, SubSeq(path, 1, k)).kind = "List"})

\* The path of the parent of the node at path.
Parent(path) == SubSeq(path, 1, Len(path) - 1)

\* C13: every ListItem rendered below a Root is handed the depth that is
\* the number of List nodes enclosing its List, the todo that tells whether
\* the ListItem directly enclosing its List has checked = Some(_) (false
\* for a List below the Root), the ordered flag of its own List and the
\* number of ListItem children before it in its own List; so the items of
\* two sibling lists see the same depth and the first item of each is
\* numbered 0.
C13_ListStateThreading ==
    /\ \A c \in seen :
          LET list == NodeAt(doc, Parent(c.path))
              above == NodeAt(doc, Parent(Parent(c.path)))
              k == c.path[Len(c.path)]
          IN  /\ list.kind = "List"
              /\ c.state.depth = ListsAbove(doc, Parent(c.path))
              /\ c.state.todo =
                     (above.kind = "ListItem" /\ above.checked # None)
              /\ above.kind = "Root" => c.state.depth = 0 /\ ~c.state.todo
              /\ c.state.ordered = list.ordered
              /\ c.ix = CountItems(list.children, k - 1)
    /\ \A c1 \in seen : \A c2 \in seen :
          Parent(Parent(c1.path)) = Parent(Parent(c2.path)) =>
              /\ c1.state.depth = c2.state.depth
              /\ CountItems(NodeAt(doc, Parent(c1.path)).children,
                            c1.path[Len(c1.path)] - 1) = 0 => c1.ix = 0

\* C13 witness: a checked item of a top-level list holds two sibling lists
\* with different ordered flags; the first item of each was rendered at
\* depth 1 with todo set, numbered 0, under its own list's ordered flag.
C13_Witness ==
    /\ dpos = Len(doc.children)
    /\ \E c1 \in seen : \E c2 \in seen :
          /\ Len(c1.path) = 4
          /\ Parent(Parent(c1.path)) = Parent(Parent(c2.path))
          /\ Parent(c1.path) # Parent(c2.path)
          /\ c1.state = [todo |-> TRUE, ordered |-> TRUE, depth |-> 1]
          /\ c2.state = [todo |-> TRUE, ordered |-> FALSE, depth |-> 1]
          /\ c1.ix = 0
          /\ c2.ix = 0

(***************************************************************************)
(* Claims about Node::render_table, checked under SpecTable.               *)
(***************************************************************************)
\* The rows the sizing loop has processed.
RowsSized == IF tpc = "size" THEN tix ELSE Len(tnode.table.children)

\* The number of columns observed in the first n rows.
ColumnsSeen(n) ==
    LET lens == {Len(tnode.table.children[r].children) : r \in 1..n}
    IN  IF lens = {} THEN 0 ELSE CHOOSE m \in lens : \A k \in lens : k <= m

\* The text_len of the cells of column c (1-based) in the first n rows.
ColumnTextLens(c, n) ==
    {text_len(tnode.table.children[r].children[c].children) :
        r \in {q \in 1..n : Len(tnode.table.children[q].children) >= c}}

\* C8: col_lens has one entry per column index observed in the rows sized
\* so far; each entry is max(5, the largest text_len of the column's cells),
\* with no upper clamp; every rendered cell's width is min(entry, 150).
C8_ColumnWidths ==
    /\ Len(col_lens) = ColumnsSeen(RowsSized)
    /\ \A c \in 1..Len(col_lens) :
           /\ col_lens[c] >= 5
           /\ \A n \in ColumnTextLens(c, RowsSized) : col_lens[c] >= n
           /\ col_lens[c] \in ColumnTextLens(c, RowsSized) \cup {5}
    /\ \A r \in 1..Len(trows) :
           /\ Len(trows[r].children) = Len(tnode.table.children[r].children)
           /\ \A c \in 1..Len(trows[r].children) :
                  trows[r].children[c].w =
                      (IF col_lens[c] <= 150 THEN col_lens[c] ELSE 150)

\* C8 witness: a ragged table was rendered whose second column holds a
\* 200-byte cell: stored width 200, rendered width 150, and a short column
\* kept the floor of 5.
C8_Witness ==
    /\ tpc = "render"
    /\ tix = Len(tnode.table.children)
    /\ Len(trows) = 2
    /\ Len(trows[1].children) # Len(trows[2].children)
    /\ col_lens = <<5, 200>>
    /\ \E r \in 1..2 :
           /\ Len(trows[r].children) = 2
           /\ trows[r].children[1].w = 5
           /\ trows[r].children[2].w = 150

\* C9: every rendered row except the table's last has a bottom border, and
\* every rendered cell except those in the table's last column has a right
\* border, whatever the length of its row.
C9_BordersByIndex ==
    \A r \in 1..Len(trows) :
        /\ trows[r].border_b = (r # Len(tnode.table.children))
        /\ \A c \in 1..Len(trows[r].children) :
               trows[r].children[c].border_r =
                   (c # ColumnsSeen(Len(tnode.table.children)))

\* C14: once the sizing loop is over col_lens has as many entries as the
\* longest row has cells; col_lens.get(ix) finds an entry for every cell
\* rendered, so the MAX_LENGTH fallback is never taken; and every
\* "len() - 1" evaluated has len() >= 1, so none underflows.
C14_LookupsAndIndexes ==
    /\ tpc = "render" =>
          Len(col_lens) = ColumnsSeen(Len(tnode.table.children))
    /\ \A g \in 1..Len(gets) : gets[g] # None
    /\ \A r \in 1..Len(trows) :
          \A c \in 1..Len(trows[r].children) : c - 1 < Len(col_lens)
    /\ \A k \in 1..Len(minuends) : minuends[k] - 1 >= 0

\* C14 witness: a table whose two rows differ in length was rendered to the
\* end; the lookup of each of its three cells found an entry and the five
\* subtractions were made on lengths 2 and 1.
C14_Witness ==
    /\ tpc = "render"
    /\ tix = Len(tnode.table.children)
    /\ Len(trows) = 2
    /\ Len(trows[1].children) = 1
    /\ Len(trows[2].children) = 2
    /\ Len(col_lens) = 2
    /\ Len(gets) = 3
    /\ \A g \in 1..3 : gets[g] # None
    /\ minuends = <<2, 1, 2, 2, 2>>

(***************************************************************************)
(* Claims about the Paragraph mutators, checked under Spec.                *)
(***************************************************************************)
\* C10: push_str and push leave an Image unchanged and append exactly one
\* run to a Texts; set_image replaces the paragraph by an Image with span
\* None and no runs; clear empties the runs of a Texts, keeping its span,
\* and turns an Image into the empty Texts default.
C10_ParagraphMutators ==
    /\ op.name \in {"push_str", "push"} =>
          IF prev.kind = "Image"
          THEN para = prev
          ELSE /\ para.kind = "Texts"
               /\ para.span = prev.span
               /\ Len(para.children) = Len(prev.children) + 1
               /\ SubSeq(para.children, 1, Len(prev.children)) = prev.children
               /\ IF op.name = "push"
                  THEN para.children[Len(para.children)] = op.arg
                  ELSE para.children[Len(para.children)].text = op.arg
    /\ op.name = "set_image" =>
          /\ para = [kind |-> "Image", span |-> None, image |-> op.arg]
          /\ Runs(para) = <<>>
    /\ op.name = "clear" =>
          IF prev.kind = "Texts"
          THEN para = [kind |-> "Texts", span |-> prev.span, children |-> <<>>]
          ELSE para = DefaultParagraph

\* C10 witness: an Image that had a span was cleared.
C10_Witness ==
    /\ op.name = "clear"
    /\ prev.kind = "Image"
    /\ prev.span # None
    /\ para = DefaultParagraph

\* The lengths of the runs of a paragraph, as a set.
RunLens(p) == {Len(Runs(p)[k].text) : k \in 1..Len(Runs(p))}

\* The largest length of a single run, 0 when there is none.
LongestRun(p) ==
    IF RunLens(p) = {}
    THEN 0
    ELSE CHOOSE n \in RunLens(p) : \A k \in RunLens(p) : k <= n

\* The runs of a paragraph that hold at least one byte.
NonEmptyRuns(p) == {k \in 1..Len(Runs(p)) : Len(Runs(p)[k].text) > 0}

\* C11: text_len of a Texts returns the largest length of a single run, 0
\* when there are no runs, which is less than the sum of the run lengths as
\* soon as two runs are not empty; text_len of an Image returns 1; is_empty
\* returns true exactly for a Texts whose text_len is 0, false for an Image.
C11_TextLenIsMax ==
    /\ op.name = "text_len" =>
          IF para.kind = "Texts"
          THEN /\ ret = Some(LongestRun(para))
               /\ para.children = <<>> => ret = Some(0)
               /\ Cardinality(NonEmptyRuns(para)) >= 2 =>
                      ret[1] < SumOfTextLens(para.children, Len(para.children))
          ELSE ret = Some(1)
    /\ op.name = "is_empty" =>
          /\ ret = Some(para.kind = "Texts" /\ LongestRun(para) = 0)
          /\ para.kind = "Image" => ret = Some(FALSE)

\* C11 witness: text_len was called on a Texts with two runs that are not
\* empty, where the largest run is shorter than the sum.
C11_Witness ==
    /\ op.name = "text_len"
    /\ para.kind = "Texts"
    /\ Cardinality(NonEmptyRuns(para)) >= 2
    /\ ret = Some(LongestRun(para))
    /\ LongestRun(para) < SumOfTextLens(para.children, Len(para.children))

=============================================================================
